---- MODULE Spec2Model ----
(***************************************************************************)
(* A model of the vipers assertion library (saber-hq/vipers).              *)
(*                                                                         *)
(* The assertion macros are modelled in two layers, as the code has them:  *)
(*   - the macro_rules! arms of each macro, tried in textual order on the  *)
(*     token shape of the trailing arguments (an operator per macro that   *)
(*     rewrites the argument list until the final arm is reached);         *)
(*   - the body of the final arm, run inside an enclosing operation that   *)
(*     returns a ProgramResult (an action per macro).                      *)
(* The comparable error of error.rs is modelled in a specification of its  *)
(* own (SpecCmp) further down.                                             *)
(***************************************************************************)
EXTENDS Integers, Sequences, FiniteSets, TLC

VARIABLES
    pc,        \* "running": about to execute the statement at line stmt;
               \* "passed": its assertion passed; "returned": the operation ended
    stmt,      \* source line of the operation's current statement
    accounts,  \* the operation's accounts, by the name the code gives them
    locals,    \* the error values bound to local names in the operation
    call,      \* the assertion executed last, with its arguments
    log,       \* the program log of the operation
    result,    \* what the operation returned
    cmp,       \* the comparable errors a test compares, and what it found
    test,      \* the function a test applies, its inputs and what it returned
    stdout     \* the standard output of the process

vars == <<pc, stmt, accounts, locals, call, log, result, cmp, test, stdout>>

(***************************************************************************)
(* Bounds of the model.                                                    *)
(***************************************************************************)
NumKeys == 2
MaxStmts == 2
MaxAmount == 1
MaxDepth == 4
NumCodes == 2
IntBits == 2

(***************************************************************************)
(* Identifiers and account handles.                                        *)
(***************************************************************************)
Keys == 0 .. (NumKeys - 1)

\* AccountInfo: the fields of the host's account record the library reads.
AccountInfo == [key : Keys, owner : Keys]

\* The handle types keyref.rs implements AsKeyRef for.
Variants ==
    {"Pubkey", "Account", "AccountInfo", "AccountLoader", "Signer",
     "SystemAccount", "Sysvar", "UncheckedAccount", "CpiAccount", "CpiState",
     "Loader", "ProgramAccount", "ProgramState"}

PubkeyHandle(k) == [variant |-> "Pubkey", key |-> k]
AccountHandle(v, i) == [variant |-> v, info |-> i]

\* AsRef<AccountInfo> of an account wrapper.
as_ref(h) == h.info

\* Key extraction that reads the owner field of the account record.
as_key_ref_owner(h) ==
    CASE h.variant = "Pubkey" -> h.key
      [] OTHER -> as_ref(h).owner

as_key_ref(h) ==
    CASE h.variant = "Pubkey" -> h.key
      [] h.variant = "Account" -> LET my_ref == as_ref(h) IN my_ref.key
      [] h.variant = "AccountInfo" -> h.info.key
      [] OTHER -> as_ref(h).key

\* BorrowKey::borrow_key
borrow_key(h) ==
    CASE h.variant = "Pubkey" -> h.key
      [] h.variant \in {"UncheckedAccount", "AccountInfo"} -> h.info.key
      [] OTHER -> as_ref(h).key

\* Box<T>, and the types that have an impl AsKeyRef block.
Box(h) == [variant |-> "Box", inner |-> h]
impl_AsKeyRef(h) == h.variant \in Variants

\* ToAccountInfo::to_account_info of an account wrapper.
to_account_info(h) == h.info

\* COption<Pubkey> of a token account's delegate and close authority.
None == [some |-> FALSE]
Some(k) == [some |-> TRUE, val |-> k]
is_none(o) == ~o.some

\* program_ids::token::ID
TokenProgram == 0

(***************************************************************************)
(* Errors.                                                                 *)
(***************************************************************************)
VipersOffset == 1100
HostOffset == 6000

\* The kinds of VipersError, in declaration order.
VipersKinds ==
    <<"KeyMismatch", "ATAMismatch", "ProgramIDMismatch", "IntegerOverflow",
      "OwnerMismatch", "InvalidATA", "InvariantFailed", "OptionUnwrapFailed",
      "KeysMustNotMatch", "TokenAccountIsNonZero", "UnknownBump">>

VipersMsg ==
    <<"Keys do not match.", "Associated token account does not match.",
      "Program ID does not match.", "Integer overflow.",
      "The provided account is not owned by the specified program.",
      "The provided token account is not an associated token account.",
      "Invariant failed.", "Option unwrap failed.", "Keys must not match.",
      "The provided token account is non-zero: amount must be zero, it should not have a delegate, and it should not have a close authority.",
      "Bump not found.">>

\* The hosting program's own error enum (crate::ErrorCode), in declaration
\* order; a member without #[msg] displays as its name.
HostKinds == <<"MyError", "MyOtherError">>
HostMsg == <<"This is my error", "MyOtherError">>

IndexOf(seq, x) == CHOOSE i \in 1 .. Len(seq) : seq[i] = x

Vipers(name) == [enum |-> "VipersError", name |-> name]
ErrorCode(name) == [enum |-> "ErrorCode", name |-> name]

VipersErrors == {Vipers(VipersKinds[i]) : i \in 1 .. Len(VipersKinds)}
HostErrors == {ErrorCode(HostKinds[i]) : i \in 1 .. Len(HostKinds)}

\* {:?} of an error value: the variant's name.
Debug(e) == e.name

\* {} of an error value: the #[msg] text.
Display(e) ==
    IF e.enum = "VipersError"
    THEN VipersMsg[IndexOf(VipersKinds, e.name)]
    ELSE HostMsg[IndexOf(HostKinds, e.name)]

\* The numeric code the #[error(offset = ...)] attribute gives a variant.
error_code(e) ==
    IF e.enum = "VipersError"
    THEN VipersOffset + (IndexOf(VipersKinds, e.name) - 1)
    ELSE HostOffset + (IndexOf(HostKinds, e.name) - 1)

\* $error.into(): the ProgramError an error enum member converts to.
into(e) == [kind |-> "Custom", code |-> error_code(e)]

\* ProgramResult, and the operation that has not returned yet.
Ok == [tag |-> "Ok"]
Err(pe) == [tag |-> "Err", err |-> pe]
Pending == [tag |-> "Pending"]

(***************************************************************************)
(* Token shapes of a macro's trailing arguments.  macro_rules! chooses an  *)
(* arm on the shape alone: a bare identifier, a literal, or any other      *)
(* expression (here a path to an error value).  nt marks an argument that  *)
(* an earlier arm captured as $x:expr: such an argument no longer matches  *)
(* $y:ident, but a literal still matches $y:literal.                       *)
(***************************************************************************)
Ident(n) == [shape |-> "ident", name |-> n, nt |-> FALSE]
Literal(s) == [shape |-> "literal", text |-> s, nt |-> FALSE]
Path(e) == [shape |-> "path", val |-> e, nt |-> FALSE]
\* &*format!("<prefix>{}", $msg)
Format(prefix, m) == [shape |-> "format", prefix |-> prefix, arg |-> m, nt |-> FALSE]

AsExpr(tok) == [tok EXCEPT !.nt = TRUE]

\* $y:ident taken to match a captured expression that is an identifier.
MatchesIdent_captured(tok) == tok.shape = "ident"

MatchesIdent(tok) == tok.shape = "ident" /\ ~tok.nt
MatchesLiteral(tok) == tok.shape = "literal"

\* The value of an error-valued expression: a bare identifier used as an
\* expression names a local binding of the call site.
EvalErr(tok, env) == IF tok.shape = "ident" THEN env[tok.name] ELSE tok.val

\* &*format!("{:?}: {}", $err, $err)
format_err(tok) == [shape |-> "format_err", of |-> tok, nt |-> FALSE]

\* The message with the construct's prefix left out, as the legacy copy of
\* invariant! hands a literal on.
EvalMsg_no_prefix(tok, env) ==
    CASE tok.shape = "literal" -> tok.text
      [] tok.shape = "format" -> tok.arg.text
      [] tok.shape = "format_err" ->
            Debug(EvalErr(tok.of, env)) \o ": " \o Display(EvalErr(tok.of, env))

\* The text a message expression evaluates to.
EvalMsg(tok, env) ==
    CASE tok.shape = "literal" -> tok.text
      [] tok.shape = "format" -> tok.prefix \o tok.arg.text
      [] tok.shape = "format_err" ->
            Debug(EvalErr(tok.of, env)) \o ": " \o Display(EvalErr(tok.of, env))

\* Display of a Pubkey.
KeyText(k) == "key" \o ToString(k)

\* stringify!($a <op> $b)
stringify(a, op, b) == a \o " " \o op \o " " \o b

\* msg!("Error thrown at {}:{}", file!(), line!())
log_code_location(line) == <<"Error thrown at lib.rs:" \o ToString(line)>>

\* throw_err! without the code location, as a bare return Err(...) would be.
throw_err_no_location(tok, env, line) ==
    [lines |-> <<>>, ret |-> Err(into(EvalErr(tok, env)))]

\* throw_err!: the lines it logs and the value it returns.  The argument
\* reaches it as a captured expression or as a path, never as a bare
\* identifier token, unless the caller wrote throw_err!(Name).
throw_err(tok, env, line) ==
    LET e == IF MatchesIdent(tok) THEN Path(ErrorCode(tok.name)) ELSE tok
    IN  [lines |-> log_code_location(line), ret |-> Err(into(EvalErr(e, env)))]

(***************************************************************************)
(* The arms of the assertion macros.  Each operator rewrites the trailing  *)
(* arguments by the first arm that matches, as macro_rules! does, until    *)
(* the final arm is reached, and returns that arm's $err and $msg.         *)
(***************************************************************************)
\* A variant of assert_keys_eq! whose final arm throws the default kind
\* whatever the caller supplied.
assert_keys_eq_rules_default_kind(t) ==
    [err |-> AsExpr(Path(Vipers("KeyMismatch"))),
     msg |-> IF Len(t) = 2 THEN AsExpr(t[2])
             ELSE format_err(Path(Vipers("KeyMismatch")))]

RECURSIVE assert_keys_eq_rules(_)
assert_keys_eq_rules(t) ==
    IF Len(t) = 0
    THEN assert_keys_eq_rules(<<Path(Vipers("KeyMismatch"))>>)
    ELSE IF Len(t) = 1 /\ MatchesIdent(t[1])
    THEN assert_keys_eq_rules(<<Path(ErrorCode(t[1].name))>>)
    ELSE IF Len(t) = 1 /\ MatchesLiteral(t[1])
    THEN assert_keys_eq_rules(
             <<Path(Vipers("KeyMismatch")), Format("Key mismatch: ", t[1])>>)
    ELSE IF Len(t) = 1
    THEN assert_keys_eq_rules(<<AsExpr(t[1]), format_err(AsExpr(t[1]))>>)
    ELSE [err |-> AsExpr(t[1]), msg |-> AsExpr(t[2])]

RECURSIVE assert_keys_neq_rules(_)
assert_keys_neq_rules(t) ==
    IF Len(t) = 0
    THEN assert_keys_neq_rules(<<Path(Vipers("KeysMustNotMatch"))>>)
    ELSE IF Len(t) = 1 /\ MatchesIdent(t[1])
    THEN assert_keys_neq_rules(<<Path(ErrorCode(t[1].name))>>)
    ELSE IF Len(t) = 1 /\ MatchesLiteral(t[1])
    THEN assert_keys_neq_rules(
             <<Path(Vipers("KeysMustNotMatch")),
               Format("Keys must not match: ", t[1])>>)
    ELSE IF Len(t) = 1
    THEN assert_keys_neq_rules(<<AsExpr(t[1]), format_err(AsExpr(t[1]))>>)
    ELSE [err |-> AsExpr(t[1]), msg |-> AsExpr(t[2])]

\* invariant! as the legacy copy has its final arm: the default kind is
\* thrown whatever the caller supplied.
invariant_rules_legacy(t) ==
    [err |-> AsExpr(Path(Vipers("InvariantFailed"))),
     msg |-> IF Len(t) = 2 THEN AsExpr(t[2])
             ELSE format_err(Path(Vipers("InvariantFailed")))]

RECURSIVE invariant_rules(_)
invariant_rules(t) ==
    IF Len(t) = 0
    THEN invariant_rules(<<Path(Vipers("InvariantFailed"))>>)
    ELSE IF Len(t) = 1 /\ MatchesIdent(t[1])
    THEN invariant_rules(<<Path(ErrorCode(t[1].name))>>)
    ELSE IF Len(t) = 2 /\ MatchesIdent(t[1])
    THEN invariant_rules(<<Path(ErrorCode(t[1].name)), AsExpr(t[2])>>)
    ELSE IF Len(t) = 1 /\ MatchesLiteral(t[1])
    THEN invariant_rules(
             <<Path(Vipers("InvariantFailed")),
               Format("Invariant failed: ", t[1])>>)
    ELSE IF Len(t) = 1
    THEN invariant_rules(<<AsExpr(t[1]), format_err(AsExpr(t[1]))>>)
    ELSE [err |-> AsExpr(t[1]), msg |-> AsExpr(t[2])]

\* The final arm of assert_is_zero_token_account! hands $err and $msg, both
\* captured expressions by then, to invariant!.
RECURSIVE assert_is_zero_token_account_rules(_)
assert_is_zero_token_account_rules(t) ==
    IF Len(t) = 0
    THEN assert_is_zero_token_account_rules(
             <<Path(Vipers("TokenAccountIsNonZero"))>>)
    ELSE IF Len(t) = 1 /\ MatchesIdent(t[1])
    THEN assert_is_zero_token_account_rules(<<Path(ErrorCode(t[1].name))>>)
    ELSE IF Len(t) = 1 /\ MatchesLiteral(t[1])
    THEN assert_is_zero_token_account_rules(
             <<Path(Vipers("TokenAccountIsNonZero")),
               Format("Token account is non-zero: ", t[1])>>)
    ELSE IF Len(t) = 1
    THEN assert_is_zero_token_account_rules(
             <<AsExpr(t[1]), format_err(AsExpr(t[1]))>>)
    ELSE invariant_rules(<<AsExpr(t[1]), AsExpr(t[2])>>)

\* The arms of assert_owner!, on <<owner>> or <<owner, msg>>.  The second
\* arm can never be chosen: the first one takes a bare identifier as an
\* expression.  The third arm re-emits the identifier as it got it, and so
\* matches its own output; rustc gives up at its recursion limit.
RECURSIVE assert_owner_rules(_, _)
assert_owner_rules(t, depth) ==
    IF depth = 0
    THEN [compiles |-> FALSE]
    ELSE IF Len(t) = 1
    THEN assert_owner_rules(<<AsExpr(t[1]), Literal("owner mismatch")>>,
                            depth - 1)
    ELSE IF Len(t) = 1 /\ MatchesIdent(t[1])
    THEN assert_owner_rules(<<t[1]>>, depth - 1)
    ELSE IF Len(t) = 2 /\ MatchesIdent(t[1])
    THEN assert_owner_rules(<<t[1], AsExpr(t[2])>>, depth - 1)
    ELSE [compiles |-> TRUE, owner |-> AsExpr(t[1]), msg |-> AsExpr(t[2])]

\* The arms of assert_ata!, on all its arguments: three or four.
assert_ata_rules(a) ==
    IF Len(a) = 3
    THEN [compiles |-> TRUE, msg |-> Literal("ata mismatch")]
    ELSE IF Len(a) = 4
    THEN [compiles |-> TRUE, msg |-> AsExpr(a[4])]
    ELSE [compiles |-> FALSE]

\* The arms of assert_is_ata!, on the arguments after the account: the
\* first hands the account and a message to assert_ata!, the second starts
\* with assert_owner!($ata, token, "ATA not owned by token program").
assert_is_ata_rules(t, depth) ==
    IF Len(t) = 0
    THEN assert_ata_rules(<<Ident("ata"), Literal("invalid ata")>>)
    ELSE LET o == assert_owner_rules(
                      <<Ident("token"),
                        Literal("ATA not owned by token program")>>, depth)
         IN  IF o.compiles
             THEN [compiles |-> TRUE, owner |-> o.owner, owner_msg |-> o.msg,
                   msg |-> AsExpr(t[1])]
             ELSE [compiles |-> FALSE]

\* unwrap_opt! whose final arm returns the default kind whatever the
\* caller supplied.
unwrap_opt_rules_default_kind(t) ==
    [err |-> AsExpr(Path(Vipers("OptionUnwrapFailed"))),
     msg |-> IF Len(t) = 2 THEN AsExpr(t[2])
             ELSE format_err(Path(Vipers("OptionUnwrapFailed")))]

\* The arms of unwrap_opt!, on the arguments after the option.
RECURSIVE unwrap_opt_rules(_)
unwrap_opt_rules(t) ==
    IF Len(t) = 0
    THEN unwrap_opt_rules(
             <<Path(Vipers("OptionUnwrapFailed")),
               format_err(Path(Vipers("OptionUnwrapFailed")))>>)
    ELSE IF Len(t) = 1 /\ MatchesIdent(t[1])
    THEN unwrap_opt_rules(<<Path(ErrorCode(t[1].name))>>)
    ELSE IF Len(t) = 1 /\ MatchesLiteral(t[1])
    THEN unwrap_opt_rules(<<Path(Vipers("OptionUnwrapFailed")), t[1]>>)
    ELSE IF Len(t) = 1
    THEN unwrap_opt_rules(<<AsExpr(t[1]), format_err(AsExpr(t[1]))>>)
    ELSE [err |-> AsExpr(t[1]), msg |-> AsExpr(t[2])]

(***************************************************************************)
(* The enclosing operation: a function returning ProgramResult whose       *)
(* statements are assertions.  A failing assertion returns from it.        *)
(***************************************************************************)
OperandNames == {"account_a", "account_b"}

\* The handles the operation's accounts are drawn from.
OperandHandles ==
    {PubkeyHandle(k) : k \in Keys}
        \cup {AccountHandle("Account", i) : i \in AccountInfo}

\* The trailing arguments a caller can write and the compiler accepts.
HostNames == {HostKinds[i] : i \in 1 .. Len(HostKinds)}
Texts == {"invalid", "this is wack"}
ErrExprs == {ErrorCode("MyError"), Vipers("ProgramIDMismatch")}

TrailingForms ==
    {<<>>}
        \cup {<<Ident(n)>> : n \in HostNames}
        \cup {<<Literal(s)>> : s \in Texts}
        \cup {<<Path(e)>> : e \in ErrExprs}
        \cup {<<Path(e), Literal(s)>> : e \in ErrExprs, s \in Texts}
        \cup {<<Ident(n), Literal(s)>> : n \in HostNames, s \in Texts}

\* The local bindings of the operation: a local named like a member of
\* ErrorCode holds either another error or (use ErrorCode::*) that member.
Envs ==
    {[n \in HostNames |-> Vipers("UnknownBump")],
     [n \in HostNames |-> ErrorCode(n)]}

\* The conditions handed to invariant!, with their source text.
Conds == {[text |-> "1 == 1", val |-> TRUE], [text |-> "1 == 2", val |-> FALSE]}

\* spl_token::state::Account, the fields the library reads.
COptionKeys == {None, Some(TokenProgram)}
TokenAccounts ==
    [amount : 0 .. MaxAmount, delegate : COptionKeys,
     close_authority : COptionKeys]

\* The owner argument of assert_owner!: an account of the operation or a
\* path to a program id, with or without a message.
OwnerForms ==
    {<<Ident(n)>> : n \in OperandNames}
        \cup {<<Path(PubkeyHandle(k))>> : k \in Keys}
        \cup {<<Ident(n), Literal("owner")>> : n \in OperandNames}
        \cup {<<Path(PubkeyHandle(k)), Literal("owner")>> : k \in Keys}

\* The value of an operand expression.
EvalOperand(tok) == IF tok.shape = "ident" THEN accounts[tok.name] ELSE tok.val

NoCall == [macro |-> "none"]
NoCmp == [done |-> FALSE]
NoTest == [fn |-> "none", done |-> FALSE]

Init ==
    /\ pc = "running"
    /\ stmt = 1
    /\ accounts \in [OperandNames -> OperandHandles]
    /\ locals \in Envs
    /\ call = NoCall
    /\ log = <<>>
    /\ result = Pending
    /\ cmp = NoCmp
    /\ test = NoTest
    /\ stdout = <<>>

\* A passing assertion that writes a line on its way out.
Continue_logging ==
    /\ pc' = "passed"
    /\ log' = log \o <<"test">>
    /\ UNCHANGED <<stmt, accounts, locals, result, cmp, test, stdout>>

\* The assertion passed: control falls out of the macro's block.
Continue ==
    /\ pc' = "passed"
    /\ UNCHANGED <<stmt, accounts, locals, log, result, cmp, test, stdout>>

\* A failing assertion that records its error and lets the operation go on.
Abort_continuing(lines, ret) ==
    /\ log' = log \o lines
    /\ result' = ret
    /\ pc' = "passed"
    /\ UNCHANGED <<stmt, accounts, locals, cmp, test, stdout>>

\* The operation logs lines and returns ret.
Abort(lines, ret) ==
    /\ log' = log \o lines
    /\ result' = ret
    /\ pc' = "returned"
    /\ UNCHANGED <<stmt, accounts, locals, cmp, test, stdout>>

\* assert_keys_eq!(x, y, t...): the final arm.
assert_keys_eq(x, y, t) ==
    /\ pc = "running"
    /\ stmt <= MaxStmts
    /\ call' = [macro |-> "assert_keys_eq", a |-> x, b |-> y, args |-> t,
                line |-> stmt]
    /\ LET r == assert_keys_eq_rules(t)
           __account_a == as_key_ref(accounts[x])
           __account_b == as_key_ref(accounts[y])
       IN  IF __account_a # __account_b
           THEN Abort(<<EvalMsg(r.msg, locals), stringify(x, "!=", y),
                        "Left: " \o KeyText(__account_a),
                        "Right: " \o KeyText(__account_b)>>
                          \o throw_err(r.err, locals, stmt).lines,
                      throw_err(r.err, locals, stmt).ret)
           ELSE Continue

\* assert_keys_neq! with the comparison of assert_keys_eq! left in place.
assert_keys_neq_copied(x, y, t) ==
    /\ pc = "running"
    /\ stmt <= MaxStmts
    /\ call' = [macro |-> "assert_keys_neq", a |-> x, b |-> y, args |-> t,
                line |-> stmt]
    /\ LET r == assert_keys_neq_rules(t)
           __account_a == as_key_ref(accounts[x])
           __account_b == as_key_ref(accounts[y])
       IN  IF __account_a # __account_b
           THEN Abort(<<EvalMsg(r.msg, locals), stringify(x, "==", y),
                        "Left: " \o KeyText(__account_a),
                        "Right: " \o KeyText(__account_b)>>
                          \o throw_err(r.err, locals, stmt).lines,
                      throw_err(r.err, locals, stmt).ret)
           ELSE Continue

\* assert_keys_neq!(x, y, t...): the final arm.
assert_keys_neq(x, y, t) ==
    /\ pc = "running"
    /\ stmt <= MaxStmts
    /\ call' = [macro |-> "assert_keys_neq", a |-> x, b |-> y, args |-> t,
                line |-> stmt]
    /\ LET r == assert_keys_neq_rules(t)
           __account_a == as_key_ref(accounts[x])
           __account_b == as_key_ref(accounts[y])
       IN  IF __account_a = __account_b
           THEN Abort(<<EvalMsg(r.msg, locals), stringify(x, "==", y),
                        "Left: " \o KeyText(__account_a),
                        "Right: " \o KeyText(__account_b)>>
                          \o throw_err(r.err, locals, stmt).lines,
                      throw_err(r.err, locals, stmt).ret)
           ELSE Continue

\* The final arm of invariant!, on a condition's value and source text.
invariant_body(val, text, r) ==
    IF ~val
    THEN Abort(<<EvalMsg(r.msg, locals), text>>
                   \o throw_err(r.err, locals, stmt).lines,
               throw_err(r.err, locals, stmt).ret)
    ELSE Continue

\* invariant!(c, t...)
invariant(c, t) ==
    /\ pc = "running"
    /\ stmt <= MaxStmts
    /\ call' = [macro |-> "invariant", cond |-> c, args |-> t, line |-> stmt]
    /\ invariant_body(c.val, c.text, invariant_rules(t))

\* assert_is_zero_token_account! that does not look at the close authority.
assert_is_zero_token_account_no_close(token_account, t) ==
    /\ pc = "running"
    /\ stmt <= MaxStmts
    /\ call' = [macro |-> "assert_is_zero_token_account",
                acct |-> token_account, args |-> t, line |-> stmt]
    /\ invariant_body(
           token_account.amount = 0 /\ is_none(token_account.delegate),
           "token_account.amount == 0 && token_account.delegate.is_none()",
           assert_is_zero_token_account_rules(t))

\* assert_is_zero_token_account!(token_account, t...)
assert_is_zero_token_account(token_account, t) ==
    /\ pc = "running"
    /\ stmt <= MaxStmts
    /\ call' = [macro |-> "assert_is_zero_token_account",
                acct |-> token_account, args |-> t, line |-> stmt]
    /\ invariant_body(
           token_account.amount = 0
               /\ is_none(token_account.delegate)
               /\ is_none(token_account.close_authority),
           "token_account.amount == 0 && token_account.delegate.is_none() && token_account.close_authority.is_none()",
           assert_is_zero_token_account_rules(t))

\* assert_owner! reading the key of the account where its owner is meant.
assert_owner_by_key(x, t) ==
    /\ pc = "running"
    /\ stmt <= MaxStmts
    /\ accounts[x].variant # "Pubkey"
    /\ assert_owner_rules(t, MaxDepth).compiles
    /\ call' = [macro |-> "assert_owner", a |-> x, args |-> t, line |-> stmt]
    /\ LET r == assert_owner_rules(t, MaxDepth)
           __program_account == to_account_info(accounts[x]).key
           __owner == as_key_ref(EvalOperand(r.owner))
       IN  IF __program_account # __owner
           THEN Abort(<<"Owner mismatch: " \o EvalMsg(r.msg, locals)
                          \o ": expected " \o KeyText(__program_account)
                          \o ", got " \o KeyText(__owner)>>,
                      Err(into(Vipers("OwnerMismatch"))))
           ELSE Continue

\* assert_owner!(x, t...): the final arm.  Only an account wrapper has an
\* AccountInfo, and only an expansion that ends compiles.
assert_owner(x, t) ==
    /\ pc = "running"
    /\ stmt <= MaxStmts
    /\ accounts[x].variant # "Pubkey"
    /\ assert_owner_rules(t, MaxDepth).compiles
    /\ call' = [macro |-> "assert_owner", a |-> x, args |-> t, line |-> stmt]
    /\ LET r == assert_owner_rules(t, MaxDepth)
           __program_account == to_account_info(accounts[x]).owner
           __owner == as_key_ref(EvalOperand(r.owner))
       IN  IF __program_account # __owner
           THEN Abort(<<"Owner mismatch: " \o EvalMsg(r.msg, locals)
                          \o ": expected " \o KeyText(__program_account)
                          \o ", got " \o KeyText(__owner)>>,
                      Err(into(Vipers("OwnerMismatch"))))
           ELSE Continue

(***************************************************************************)
(* Checked integer arithmetic and the unwrap macros.  The integers are     *)
(* unsigned and IntBits wide.                                              *)
(***************************************************************************)
IntMax == 2 ^ IntBits - 1

\* Addition that wraps around where checked_add has no value.
checked_add_wrapping(a, b) == Some((a + b) % (IntMax + 1))

checked_add(a, b) == IF a + b > IntMax THEN None ELSE Some(a + b)
checked_sub(a, b) == IF a < b THEN None ELSE Some(a - b)

Operands == {1, IntMax}
Ops == [op : {"checked_add", "checked_sub"}, arg : Operands]
Apply(o, a) ==
    IF o.op = "checked_add" THEN checked_add(a, o.arg) ELSE checked_sub(a, o.arg)

\* A block { let x = start.first(..)?; x.last(..) } of checked operations.
Blocks == [start : Operands, first : Ops, last : Ops]

\* (|| { $body })(): the ? after the first operation leaves the closure
\* with None; the caller goes on with the closure's value.
closure(body) ==
    LET x == Apply(body.first, body.start)
    IN  IF is_none(x) THEN None ELSE Apply(body.last, x.val)

\* The options handed to unwrap_opt! and unwrap_int!.
Options == {None} \cup {Some(v) : v \in Operands}

\* The final arm of unwrap_opt!: $option.ok_or_else(|| { .. })?
unwrap_opt_body(option, text, r) ==
    IF is_none(option)
    THEN Abort(<<"Option unwrap failed: " \o Debug(EvalErr(r.err, locals)),
                 text>> \o log_code_location(stmt),
               Err(into(EvalErr(r.err, locals))))
    ELSE Continue

\* unwrap_opt!(weird_math, t...)
unwrap_opt(option, t) ==
    /\ pc = "running"
    /\ stmt <= MaxStmts
    /\ call' = [macro |-> "unwrap_opt", opt |-> option, args |-> t,
                line |-> stmt, value |-> option]
    /\ unwrap_opt_body(option, "weird_math", unwrap_opt_rules(t))

\* unwrap_int!(weird_math)
unwrap_int(option) ==
    /\ pc = "running"
    /\ stmt <= MaxStmts
    /\ call' = [macro |-> "unwrap_int", opt |-> option, args |-> <<>>,
                line |-> stmt, value |-> option]
    /\ unwrap_opt_body(option, "weird_math",
                       unwrap_opt_rules(<<Path(Vipers("IntegerOverflow"))>>))

\* unwrap_opt_block!({ body } t...)
unwrap_opt_block(body, t) ==
    /\ pc = "running"
    /\ stmt <= MaxStmts
    /\ call' = [macro |-> "unwrap_opt_block", block |-> body, args |-> t,
                line |-> stmt, value |-> closure(body)]
    /\ unwrap_opt_body(closure(body), "(|| { body })()", unwrap_opt_rules(t))

\* unwrap_checked!({ body })
unwrap_checked(body) ==
    /\ pc = "running"
    /\ stmt <= MaxStmts
    /\ call' = [macro |-> "unwrap_checked", block |-> body, args |-> <<>>,
                line |-> stmt, value |-> closure(body)]
    /\ unwrap_opt_body(closure(body), "(|| { body })()",
                       unwrap_opt_rules(<<Path(Vipers("IntegerOverflow"))>>))

(***************************************************************************)
(* Associated token addresses.  get_associated_token_address is the        *)
(* host's: a call carries the address it derives for the call's owner and  *)
(* mint.                                                                   *)
(***************************************************************************)
\* The messages a caller gives assert_ata! and assert_is_ata!.
AtaForms == {<<>>, <<Literal("ATA")>>}

\* assert_ata!(ata, owner, mint, t...): the final arm.
assert_ata(ata, owner, mint, t, derived) ==
    /\ pc = "running"
    /\ stmt <= MaxStmts
    /\ call' = [macro |-> "assert_ata", a |-> ata, owner |-> owner,
                mint |-> mint, args |-> t, line |-> stmt, derived |-> derived]
    /\ LET r == assert_ata_rules(<<Ident(ata), Ident(owner), Ident(mint)>> \o t)
           __ata == as_key_ref(accounts[ata])
           __real_ata == derived
       IN  IF __real_ata # __ata
           THEN Abort(<<"ATA mismatch: " \o EvalMsg(r.msg, locals) \o ": "
                          \o KeyText(__ata) \o " (left) != "
                          \o KeyText(__real_ata) \o " (right)",
                        "Owner: " \o KeyText(as_key_ref(accounts[owner])),
                        "Mint: " \o KeyText(as_key_ref(accounts[mint]))>>
                          \o throw_err(Path(Vipers("ATAMismatch")), locals,
                                       stmt).lines,
                      throw_err(Path(Vipers("ATAMismatch")), locals, stmt).ret)
           ELSE Continue

\* Account<TokenAccount>: the account record and the token account's owner
\* and mint.
AtaAccounts == [info : AccountInfo, owner : Keys, mint : Keys]

\* The operation holds a macro call that does not expand, or expands to
\* code that names nothing in scope: it is not built and nothing runs.
Reject ==
    /\ pc' = "rejected"
    /\ UNCHANGED <<stmt, accounts, locals, log, result, cmp, test, stdout>>

\* assert_is_ata!(ata, t...).  Its second arm compares the account's owner
\* with the value of the expression the expansion of assert_owner! ends
\* with, then the account's key with the derived address.
assert_is_ata(ata, t, derived) ==
    /\ pc = "running"
    /\ stmt <= MaxStmts
    /\ call' = [macro |-> "assert_is_ata", acct |-> ata, args |-> t,
                line |-> stmt, derived |-> derived]
    /\ LET r == assert_is_ata_rules(t, MaxDepth)
       IN  IF ~r.compiles
           THEN Reject
           ELSE IF r.owner.shape = "ident" /\ r.owner.name \notin OperandNames
           THEN Reject
           ELSE IF ata.info.owner # as_key_ref(EvalOperand(r.owner))
           THEN Abort(<<"Owner mismatch: " \o EvalMsg(r.owner_msg, locals)
                          \o ": expected " \o KeyText(ata.info.owner)
                          \o ", got "
                          \o KeyText(as_key_ref(EvalOperand(r.owner)))>>,
                      Err(into(Vipers("OwnerMismatch"))))
           ELSE IF derived # ata.info.key
           THEN Abort(<<"Invalid ATA: " \o EvalMsg(r.msg, locals) \o ": "
                          \o KeyText(ata.info.key) \o " (left) != "
                          \o KeyText(derived) \o " (right)",
                        "Owner: " \o KeyText(ata.owner),
                        "Mint: " \o KeyText(ata.mint)>>
                          \o throw_err(Path(Vipers("InvalidATA")), locals,
                                       stmt).lines,
                      throw_err(Path(Vipers("InvalidATA")), locals, stmt).ret)
           ELSE Continue

\* ProgramOwned::expected_owner of TokenAccount and of Mint.
expected_owner(self) == TokenProgram

\* The CpiAccount<TokenAccount> and CpiAccount<Mint> handles.
CpiAccounts == {AccountHandle("CpiAccount", i) : i \in AccountInfo}

\* self.validate()? as a statement of the operation, with Validate for
\* CpiAccount: the assert_owner! of src/src/assert.rs on *self and
\* *self.expected_owner(), by its first and second arm, then Ok(()).
validate(self) ==
    /\ pc = "running"
    /\ stmt <= MaxStmts
    /\ call' = [macro |-> "validate", acct |-> self, args |-> <<>>,
                line |-> stmt]
    /\ LET __program_account == to_account_info(self).owner
           __owner == expected_owner(self)
       IN  IF __program_account # __owner
           THEN Abort(<<"Owner mismatch: " \o "owner mismatch"
                          \o ": expected " \o KeyText(__program_account)
                          \o ", got " \o KeyText(__owner)>>,
                      Err(into(Vipers("OwnerMismatch"))))
           ELSE Continue

\* The operation moves on to its next statement.
FallThrough ==
    /\ pc = "passed"
    /\ pc' = "running"
    /\ stmt' = stmt + 1
    /\ call' = NoCall
    /\ UNCHANGED <<accounts, locals, log, result, cmp, test, stdout>>

\* The enclosing function reaches its final Ok(()).
Return ==
    /\ pc = "running"
    /\ result' = Ok
    /\ pc' = "returned"
    /\ UNCHANGED <<stmt, accounts, locals, call, log, cmp, test, stdout>>

Next ==
    \/ \E x, y \in OperandNames, t \in TrailingForms : assert_keys_eq(x, y, t)
    \/ \E x, y \in OperandNames, t \in TrailingForms : assert_keys_neq(x, y, t)
    \/ \E c \in Conds, t \in TrailingForms : invariant(c, t)
    \/ \E a \in TokenAccounts, t \in TrailingForms :
          assert_is_zero_token_account(a, t)
    \/ \E x \in OperandNames, t \in OwnerForms : assert_owner(x, t)
    \/ \E self \in CpiAccounts : validate(self)
    \/ \E o \in Options, t \in TrailingForms : unwrap_opt(o, t)
    \/ \E o \in Options : unwrap_int(o)
    \/ \E b \in Blocks, t \in TrailingForms : unwrap_opt_block(b, t)
    \/ \E b \in Blocks : unwrap_checked(b)
    \/ \E x, y, z \in OperandNames, t \in AtaForms, d \in Keys :
          assert_ata(x, y, z, t, d)
    \/ \E a \in AtaAccounts, t \in AtaForms, d \in Keys : assert_is_ata(a, t, d)
    \/ FallThrough
    \/ Return

Spec == Init /\ [][Next]_vars

(***************************************************************************)
(* The copy of the macros in src/src/assert.rs, and an operation built     *)
(* with them.                                                              *)
(***************************************************************************)
\* The trailing arguments the legacy invariant! and unwrap_opt! accept:
\* neither has an arm for no argument.
LegacyForms == TrailingForms \ {<<>>}

RECURSIVE legacy_invariant_rules(_)
legacy_invariant_rules(t) ==
    IF Len(t) = 1 /\ MatchesIdent(t[1])
    THEN legacy_invariant_rules(<<Path(ErrorCode(t[1].name))>>)
    ELSE IF Len(t) = 1 /\ MatchesLiteral(t[1])
    THEN legacy_invariant_rules(<<Path(Vipers("InvariantFailed")), t[1]>>)
    ELSE IF Len(t) = 1
    THEN legacy_invariant_rules(<<AsExpr(t[1]), format_err(AsExpr(t[1]))>>)
    ELSE [err |-> AsExpr(t[1]), msg |-> AsExpr(t[2])]

\* invariant!(c, t...) of the legacy copy: the final arm logs $err and
\* throws VipersError::InvariantFailed.
legacy_invariant(c, t) ==
    /\ pc = "running"
    /\ stmt <= MaxStmts
    /\ call' = [macro |-> "legacy_invariant", cond |-> c, args |-> t,
                line |-> stmt]
    /\ LET r == legacy_invariant_rules(t)
       IN  IF ~c.val
           THEN Abort(<<"Invariant failed: " \o Debug(EvalErr(r.err, locals))>>
                          \o throw_err(Path(Vipers("InvariantFailed")), locals,
                                       stmt).lines,
                      throw_err(Path(Vipers("InvariantFailed")), locals,
                                stmt).ret)
           ELSE Continue

RECURSIVE legacy_unwrap_opt_rules(_)
legacy_unwrap_opt_rules(t) ==
    IF Len(t) = 1 /\ MatchesIdent(t[1])
    THEN legacy_unwrap_opt_rules(<<Path(ErrorCode(t[1].name))>>)
    ELSE IF Len(t) = 1 /\ MatchesLiteral(t[1])
    THEN legacy_unwrap_opt_rules(<<Path(Vipers("OptionUnwrapFailed")), t[1]>>)
    ELSE IF Len(t) = 1
    THEN legacy_unwrap_opt_rules(<<AsExpr(t[1]), format_err(AsExpr(t[1]))>>)
    ELSE [err |-> AsExpr(t[1]), msg |-> AsExpr(t[2])]

\* The final arm of the legacy unwrap_opt!: it logs $err and converts
\* VipersError::OptionUnwrapFailed.
legacy_unwrap_opt_body(option, r) ==
    IF is_none(option)
    THEN Abort(<<"Option unwrap failed: " \o Debug(EvalErr(r.err, locals))>>
                   \o log_code_location(stmt),
               Err(into(Vipers("OptionUnwrapFailed"))))
    ELSE Continue

legacy_unwrap_opt(option, t) ==
    /\ pc = "running"
    /\ stmt <= MaxStmts
    /\ call' = [macro |-> "legacy_unwrap_opt", opt |-> option, args |-> t,
                line |-> stmt, value |-> option]
    /\ legacy_unwrap_opt_body(option, legacy_unwrap_opt_rules(t))

legacy_unwrap_int(option) ==
    /\ pc = "running"
    /\ stmt <= MaxStmts
    /\ call' = [macro |-> "legacy_unwrap_int", opt |-> option, args |-> <<>>,
                line |-> stmt, value |-> option]
    /\ legacy_unwrap_opt_body(
           option, legacy_unwrap_opt_rules(<<Path(Vipers("IntegerOverflow"))>>))

NextLegacy ==
    \/ \E c \in Conds, t \in LegacyForms : legacy_invariant(c, t)
    \/ \E o \in Options, t \in LegacyForms : legacy_unwrap_opt(o, t)
    \/ \E o \in Options : legacy_unwrap_int(o)
    \/ FallThrough
    \/ Return

SpecLegacy == Init /\ [][NextLegacy]_vars

(***************************************************************************)
(* The comparable error of error.rs: CmpError wraps an                     *)
(* anchor_lang::error::Error, which is an AnchorError (name, code number,  *)
(* message, origin) or a ProgramError with its origin.  A test draws three *)
(* optional comparable errors and compares them.                           *)
(***************************************************************************)
FirstCode == 10
Codes == FirstCode .. (FirstCode + NumCodes - 1)

\* Where an error was raised, if recorded.
Origins == {None, Some(1)}

\* solana_program's ProgramError: variants without a payload, Custom(u32),
\* and BorshIoError(String).
ProgramErrors ==
    {[variant |-> "InvalidArgument"], [variant |-> "AccountAlreadyInitialized"]}
        \cup {[variant |-> "Custom", code |-> c] : c \in Codes}
        \cup {[variant |-> "BorshIoError", text |-> s] : s \in Texts}

AnchorErrors ==
    [family : {"AnchorError"}, error_name : HostNames, error_code_number : Codes,
     error_msg : Texts, error_origin : Origins]

ProgramErrorsWithOrigin ==
    [family : {"ProgramError"}, program_error : ProgramErrors,
     error_origin : Origins]

\* Option<CmpError>
OptCmpErrors ==
    {None} \cup {Some(e) : e \in AnchorErrors \cup ProgramErrorsWithOrigin}

\* Equality that looks at the numeric code of a program error too.
eq_by_code(a, b) ==
    LET Number(e) ==
            IF e.family = "AnchorError" THEN e.error_code_number
            ELSE IF e.program_error.variant = "Custom" THEN e.program_error.code
            ELSE 0
    IN  Number(a) = Number(b)

\* PartialEq for CmpError
eq(a, b) ==
    CASE a.family = "AnchorError" /\ b.family = "AnchorError" ->
            a.error_code_number = b.error_code_number
      [] a.family = "ProgramError" /\ b.family = "ProgramError" ->
            a.program_error = b.program_error
      [] OTHER -> FALSE

\* PartialEq for Option<CmpError>, as assert_eq! / assert_ne! use it.
opt_eq(x, y) ==
    IF x.some /\ y.some THEN eq(x.val, y.val) ELSE x.some = y.some

\* The operation's variables while a test only compares errors.
NoOperation ==
    /\ pc = "returned"
    /\ stmt = 1
    /\ accounts = [n \in OperandNames |-> PubkeyHandle(TokenProgram)]
    /\ locals = [n \in HostNames |-> ErrorCode(n)]
    /\ call = NoCall
    /\ log = <<>>
    /\ result = Ok

InitCmp ==
    /\ NoOperation
    /\ test = NoTest
    /\ stdout = <<>>
    /\ cmp \in [done : {FALSE}, a : OptCmpErrors, b : OptCmpErrors,
                c : OptCmpErrors]

\* assert_eq! on the drawn errors, in the pairings the claims need.
Compare ==
    /\ ~cmp.done
    /\ cmp' = [done |-> TRUE, a |-> cmp.a, b |-> cmp.b, c |-> cmp.c,
               aa |-> opt_eq(cmp.a, cmp.a), ab |-> opt_eq(cmp.a, cmp.b),
               ba |-> opt_eq(cmp.b, cmp.a), bc |-> opt_eq(cmp.b, cmp.c),
               ac |-> opt_eq(cmp.a, cmp.c)]
    /\ UNCHANGED <<pc, stmt, accounts, locals, call, log, result, test, stdout>>

NextCmp == Compare

SpecCmp == InitCmp /\ [][NextCmp]_vars

(***************************************************************************)
(* The functions of the library a test applies to inputs it draws: the     *)
(* conversion of a VipersError kind to its code in each revision of the    *)
(* enum, key extraction, and validate_derived_address.                     *)
(***************************************************************************)
\* VipersError as src/src/lib.rs declares it.
LegacyKinds ==
    <<"KeyMismatch", "ATAMismatch", "ProgramIDMismatch", "IntegerOverflow",
      "OwnerMismatch", "InvalidATA">>

\* VipersError of vipers/src/lib.rs with two kinds in another order.
LibKinds_reordered ==
    <<"KeyMismatch", "ATAMismatch", "ProgramIDMismatch", "IntegerOverflow",
      "InvalidATA", "OwnerMismatch", "InvariantFailed", "OptionUnwrapFailed",
      "KeysMustNotMatch", "TokenAccountIsNonZero">>

\* VipersError as src/vipers/src/lib.rs declares it.
LibKinds ==
    <<"KeyMismatch", "ATAMismatch", "ProgramIDMismatch", "IntegerOverflow",
      "OwnerMismatch", "InvalidATA", "InvariantFailed", "OptionUnwrapFailed",
      "KeysMustNotMatch", "TokenAccountIsNonZero">>

\* The revisions of the enum: the file, the offset of its attribute and the
\* kinds in declaration order.
Revisions ==
    {[file |-> "src/src/lib.rs", offset |-> VipersOffset, kinds |-> LegacyKinds],
     [file |-> "src/vipers/src/lib.rs", offset |-> VipersOffset,
      kinds |-> LibKinds],
     [file |-> "src/vipers/src/error.rs", offset |-> VipersOffset,
      kinds |-> VipersKinds]}

KindsOf(rev) == {rev.kinds[i] : i \in 1 .. Len(rev.kinds)}

\* The code with the declaration index counted from one.
code_of_one_based(rev, name) == rev.offset + IndexOf(rev.kinds, name)

\* The code the attribute gives kind name in revision rev: the offset plus
\* the discriminant, which counts declarations from zero.
code_of(rev, name) == rev.offset + (IndexOf(rev.kinds, name) - 1)

\* Two kinds, each of some revision.
ConvertInputs ==
    {[fn |-> "into", done |-> FALSE, rev_a |-> r, name_a |-> n, rev_b |-> q,
      name_b |-> m] : r \in Revisions, q \in Revisions,
                      n \in VipersErrors, m \in VipersErrors}

\* A handle of every type, bare or boxed.
Handles ==
    {PubkeyHandle(k) : k \in Keys}
        \cup {AccountHandle(v, i) : v \in Variants \ {"Pubkey"}, i \in AccountInfo}

KeyRefInputs ==
    {[fn |-> "as_key_ref", done |-> FALSE, handle |-> h] :
        h \in Handles \cup {Box(g) : g \in Handles}}

\* Pubkey::create_program_address(seeds, program_id) is the host's: for the
\* seeds and program of a call it yields an address or a PubkeyError, and
\* the call's inputs carry that outcome.
Created(k) == [tag |-> "Ok", key |-> k]
PubkeyErrors == {[tag |-> "Err", err |-> e] :
                    e \in {"MaxSeedLengthExceeded", "InvalidSeeds"}}
SeedLists == {<<"test">>, <<"test", "random">>}

\* validate_derived_address that takes any address the host derives.
validate_derived_address_any(derived_address, created) ==
    [out |-> <<"test">>, ret |-> created.tag = "Ok"]

\* validate_derived_address of src/vipers/src/lib.rs: what it prints and
\* what it returns.
validate_derived_address(derived_address, created) ==
    [out |-> <<"test">>,
     ret |-> IF created.tag = "Ok" THEN derived_address = created.key
             ELSE FALSE]

\* validate_derived_address of src/src/lib.rs.
legacy_validate_derived_address(derived_address, created) ==
    [out |-> <<>>,
     ret |-> IF created.tag = "Ok" THEN derived_address = created.key
             ELSE FALSE]

ValidateInputs ==
    [fn : {"validate_derived_address"}, done : {FALSE},
     file : {"src/src/lib.rs", "src/vipers/src/lib.rs"},
     derived_address : Keys, program_id : Keys, seeds : SeedLists,
     created : {Created(k) : k \in Keys} \cup PubkeyErrors]

\* crate::program_ids: the modules that hold a program's address.
program_ids == [token |-> TokenProgram]

\* The arms of the legacy assert_owner!, in its order: the two expression
\* arms come first and take every call, a bare name included.
legacy_assert_owner_rules(t) ==
    IF Len(t) = 1
    THEN [compiles |-> TRUE, owner |-> AsExpr(t[1]),
          msg |-> Literal("owner mismatch")]
    ELSE [compiles |-> TRUE, owner |-> AsExpr(t[1]), msg |-> AsExpr(t[2])]

\* The arms of the legacy assert_is_ata!.
legacy_assert_is_ata_rules(t) ==
    IF Len(t) = 0
    THEN assert_ata_rules(<<Ident("ata"), Literal("invalid ata")>>)
    ELSE LET o == legacy_assert_owner_rules(
                      <<Ident("token"),
                        Literal("ATA not owned by token program")>>)
         IN  [compiles |-> TRUE, owner |-> o.owner, owner_msg |-> o.msg,
              msg |-> AsExpr(t[1])]

\* The owner arguments of a call of assert_owner!: a bare program name or
\* an address, with or without a message.
ExpandOwnerForms ==
    LET owners == {Ident(n) : n \in DOMAIN program_ids}
                      \cup {Path(PubkeyHandle(k)) : k \in Keys}
    IN  {<<o>> : o \in owners} \cup {<<o, Literal("owner")>> : o \in owners}

ExpandInputs ==
    {[fn |-> "expand", done |-> FALSE, file |-> f, macro |-> "assert_owner",
      args |-> t] : f \in {"src/src/assert.rs", "src/vipers/src/assert.rs"},
                    t \in ExpandOwnerForms}
        \cup {[fn |-> "expand", done |-> FALSE, file |-> f,
               macro |-> "assert_is_ata", args |-> t] :
                  f \in {"src/src/assert.rs", "src/vipers/src/assert.rs"},
                  t \in AtaForms}

\* anchor_lang::error::Error: either family.
Errors == AnchorErrors \cup ProgramErrorsWithOrigin

\* The values into_cmp_error is implemented for: Result<T>, Error and
\* Option<Error>.
CmpSources ==
    {[type |-> "Result", val |-> Ok]}
        \cup {[type |-> "Result", val |-> Err(e)] : e \in Errors}
        \cup {[type |-> "Error", val |-> e] : e \in Errors}
        \cup {[type |-> "Option", val |-> None]}
        \cup {[type |-> "Option", val |-> Some(e)] : e \in Errors}

\* Result::err
err(r) == IF r.tag = "Err" THEN Some(r.err) ELSE None

\* into_cmp_error that loses the error of a failed result.
into_cmp_error_lossy(x) ==
    CASE x.type = "Result" -> None
      [] x.type = "Error" -> Some(x.val)
      [] x.type = "Option" -> IF is_none(x.val) THEN None ELSE Some(x.val.val)

\* IntoCmpError::into_cmp_error of the three implementations; `?` on an
\* absent value returns None.
into_cmp_error(x) ==
    CASE x.type = "Result" ->
            IF is_none(err(x.val)) THEN None ELSE Some(err(x.val).val)
      [] x.type = "Error" -> Some(x.val)
      [] x.type = "Option" -> IF is_none(x.val) THEN None ELSE Some(x.val.val)

IntoCmpErrorInputs ==
    [fn : {"into_cmp_error"}, done : {FALSE}, x : CmpSources, y : CmpSources]

InitFn ==
    /\ NoOperation
    /\ cmp = NoCmp
    /\ stdout = <<>>
    /\ \/ /\ test \in ConvertInputs
          /\ test.name_a.name \in KindsOf(test.rev_a)
          /\ test.name_b.name \in KindsOf(test.rev_b)
       \/ test \in KeyRefInputs
       \/ test \in ValidateInputs
       \/ test \in ExpandInputs
       \/ test \in IntoCmpErrorInputs

\* ProgramError::from of the two kinds.
Convert ==
    /\ test.fn = "into" /\ ~test.done
    /\ test' = [fn |-> "into", done |-> TRUE,
                rev_a |-> test.rev_a, name_a |-> test.name_a,
                rev_b |-> test.rev_b, name_b |-> test.name_b,
                out_a |-> [kind |-> "Custom",
                           code |-> code_of(test.rev_a, test.name_a.name)],
                out_b |-> [kind |-> "Custom",
                           code |-> code_of(test.rev_b, test.name_b.name)]]
    /\ UNCHANGED <<pc, stmt, accounts, locals, call, log, result, cmp, stdout>>

\* $crate::AsKeyRef::as_key_ref(&handle): the call names the trait by path,
\* so the handle's own type must implement it; no dereference is tried.
KeyRef ==
    /\ test.fn = "as_key_ref" /\ ~test.done
    /\ test' = [fn |-> "as_key_ref", done |-> TRUE, handle |-> test.handle,
                out |-> IF impl_AsKeyRef(test.handle)
                        THEN [compiles |-> TRUE,
                              key |-> as_key_ref(test.handle),
                              borrowed |-> borrow_key(test.handle)]
                        ELSE [compiles |-> FALSE]]
    /\ UNCHANGED <<pc, stmt, accounts, locals, call, log, result, cmp, stdout>>

\* A call of validate_derived_address, in either revision.
ValidateDerivedAddress ==
    /\ test.fn = "validate_derived_address" /\ ~test.done
    /\ LET r == IF test.file = "src/src/lib.rs"
                THEN legacy_validate_derived_address(test.derived_address,
                                                     test.created)
                ELSE validate_derived_address(test.derived_address,
                                              test.created)
       IN  /\ stdout' = stdout \o r.out
           /\ test' = [fn |-> test.fn, done |-> TRUE, file |-> test.file,
                       derived_address |-> test.derived_address,
                       program_id |-> test.program_id, seeds |-> test.seeds,
                       created |-> test.created, out |-> r.ret]
    /\ UNCHANGED <<pc, stmt, accounts, locals, call, log, result, cmp>>

\* The expansion of a call of assert_owner! or assert_is_ata!, in either
\* copy: whether it ends, and the owner expression it ends with.
Expand ==
    /\ test.fn = "expand" /\ ~test.done
    /\ test' = [fn |-> "expand", done |-> TRUE, file |-> test.file,
                macro |-> test.macro, args |-> test.args,
                out |-> IF test.macro = "assert_owner"
                        THEN IF test.file = "src/src/assert.rs"
                             THEN legacy_assert_owner_rules(test.args)
                             ELSE assert_owner_rules(test.args, MaxDepth)
                        ELSE IF test.file = "src/src/assert.rs"
                             THEN legacy_assert_is_ata_rules(test.args)
                             ELSE assert_is_ata_rules(test.args, MaxDepth)]
    /\ UNCHANGED <<pc, stmt, accounts, locals, call, log, result, cmp, stdout>>

\* assert_eq!(x.into_cmp_error(), y.into_cmp_error())
IntoCmpError ==
    /\ test.fn = "into_cmp_error" /\ ~test.done
    /\ test' = [fn |-> "into_cmp_error", done |-> TRUE, x |-> test.x,
                y |-> test.y, out_x |-> into_cmp_error(test.x),
                out_y |-> into_cmp_error(test.y),
                equal |-> opt_eq(into_cmp_error(test.x),
                                 into_cmp_error(test.y))]
    /\ UNCHANGED <<pc, stmt, accounts, locals, call, log, result, cmp, stdout>>

NextFn ==
    \/ IntoCmpError
    \/ Expand
    \/ Convert
    \/ KeyRef
    \/ ValidateDerivedAddress

SpecFn == InitFn /\ [][NextFn]_vars

(***************************************************************************)
(* What the claims speak of, stated without the macros' arms.              *)
(***************************************************************************)
\* The identifier a handle embeds.
KeyOf(h) == IF h.variant = "Pubkey" THEN h.key ELSE h.info.key

\* The form of the trailing arguments.
FormNone(t) == Len(t) = 0
FormIdent(t) == Len(t) = 1 /\ t[1].shape = "ident"
FormLiteral(t) == Len(t) = 1 /\ t[1].shape = "literal"
FormExpr(t) == Len(t) = 1 /\ t[1].shape = "path"
FormErrAndMsg(t) == Len(t) = 2

\* The library's default kind of each assertion.
DefaultKind(macro) ==
    CASE macro = "assert_keys_eq" -> Vipers("KeyMismatch")
      [] macro = "assert_keys_neq" -> Vipers("KeysMustNotMatch")
      [] macro = "invariant" -> Vipers("InvariantFailed")
      [] macro = "assert_is_zero_token_account" -> Vipers("TokenAccountIsNonZero")

\* The value of the first trailing argument read as a Rust expression.
ExprValue(t) == IF t[1].shape = "ident" THEN locals[t[1].name] ELSE t[1].val

Failed == pc = "returned" /\ result.tag = "Err"
Passed == pc = "passed" /\ result = Pending
KeyMacros == {"assert_keys_eq", "assert_keys_neq"}
LeftKey == KeyOf(accounts[call.a])
RightKey == KeyOf(accounts[call.b])

\* C1: assert_keys_eq(A, B) returns without error when A equals B, for every
\* form of the trailing arguments; when A differs from B it fails, with
\* VipersError::KeyMismatch if no error was supplied (no argument, or a
\* literal text) and with the supplied error otherwise.
C1_AssertKeysEq ==
    call.macro = "assert_keys_eq" =>
        IF LeftKey = RightKey
        THEN Passed
        ELSE /\ Failed
             /\ result.err =
                    into(IF FormNone(call.args) \/ FormLiteral(call.args)
                         THEN Vipers("KeyMismatch")
                         ELSE IF FormIdent(call.args)
                         THEN ErrorCode(call.args[1].name)
                         ELSE ExprValue(call.args))

\* C1 witness: assert_keys_eq on different keys failed with the ErrorCode
\* member the caller named.
C1_Witness ==
    /\ call.macro = "assert_keys_eq"
    /\ FormIdent(call.args)
    /\ LeftKey # RightKey
    /\ result = Err(into(ErrorCode(call.args[1].name)))

\* C2: assert_keys_neq is the negation of assert_keys_eq: on the same
\* operands exactly one of the two passes (assert_keys_eq passes iff the keys
\* are equal, assert_keys_neq iff they differ), and assert_keys_neq fails
\* with VipersError::KeysMustNotMatch by default or with the supplied error.
C2_AssertKeysNeq ==
    /\ (call.macro \in KeyMacros /\ pc # "running") =>
           (Passed <=> ((call.macro = "assert_keys_eq") <=> (LeftKey = RightKey)))
    /\ (call.macro = "assert_keys_neq" /\ LeftKey = RightKey) =>
           /\ Failed
           /\ result.err =
                  into(IF FormNone(call.args) \/ FormLiteral(call.args)
                       THEN Vipers("KeysMustNotMatch")
                       ELSE IF FormIdent(call.args)
                       THEN ErrorCode(call.args[1].name)
                       ELSE ExprValue(call.args))

\* C2 witness: assert_keys_neq failed with the default kind on two different
\* handles that embed the same key.
C2_Witness ==
    /\ call.macro = "assert_keys_neq"
    /\ accounts[call.a] # accounts[call.b]
    /\ LeftKey = RightKey
    /\ result = Err(into(Vipers("KeysMustNotMatch")))

\* C3: invariant!(cond, ...) passes when cond is true, for every form of the
\* trailing arguments; when cond is false it fails with
\* VipersError::InvariantFailed if no error was supplied (no argument, or a
\* literal text) and with the supplied host error otherwise.
C3_Invariant ==
    call.macro = "invariant" =>
        IF call.cond.val
        THEN Passed
        ELSE /\ Failed
             /\ result.err =
                    into(IF FormNone(call.args) \/ FormLiteral(call.args)
                         THEN Vipers("InvariantFailed")
                         ELSE IF call.args[1].shape = "ident"
                         THEN ErrorCode(call.args[1].name)
                         ELSE call.args[1].val)

\* C3 witness: invariant! on a false condition failed with the error
\* expression the caller supplied.
C3_Witness ==
    /\ call.macro = "invariant"
    /\ ~call.cond.val
    /\ FormExpr(call.args)
    /\ result = Err(into(ErrorCode("MyError")))

\* The error a failing assertion resolves to, by the form of its trailing
\* arguments.  A bare identifier followed by a message is ErrorCode::<name>
\* for invariant! and the local binding of that name for the other macros.
ResolvedError(macro, t) ==
    IF FormNone(t) \/ FormLiteral(t)
    THEN DefaultKind(macro)
    ELSE IF FormIdent(t)
    THEN ErrorCode(t[1].name)
    ELSE IF macro = "invariant" /\ t[1].shape = "ident"
    THEN ErrorCode(t[1].name)
    ELSE ExprValue(t)

\* The fixed prefix each construct puts before a literal message.
Prefix(macro) ==
    CASE macro = "assert_keys_eq" -> "Key mismatch: "
      [] macro = "assert_keys_neq" -> "Keys must not match: "
      [] macro = "invariant" -> "Invariant failed: "

\* The first log line of a failing assertion.
FirstLine(macro, t) ==
    IF FormLiteral(t)
    THEN Prefix(macro) \o t[1].text
    ELSE IF FormErrAndMsg(t)
    THEN t[2].text
    ELSE Debug(ResolvedError(macro, t)) \o ": " \o Display(ResolvedError(macro, t))

\* C4: a failing key comparison emits exactly five log lines, in this order:
\* the resolved message, the source text of the comparison, "Left: <first
\* key>", "Right: <second key>", "Error thrown at <file>:<line>"; an error is
\* returned only together with all five.
C4_KeyLogOrder ==
    (call.macro \in KeyMacros /\ result.tag = "Err") =>
        /\ Len(log) = 5
        /\ log[1] = FirstLine(call.macro, call.args)
        /\ log[2] = call.a \o (IF call.macro = "assert_keys_eq" THEN " != " ELSE " == ")
                       \o call.b
        /\ log[3] = "Left: " \o KeyText(LeftKey)
        /\ log[4] = "Right: " \o KeyText(RightKey)
        /\ log[5] = "Error thrown at lib.rs:" \o ToString(call.line)

\* C4 witness: a key comparison of two different operands failed at the
\* second statement and logged.
C4_Witness ==
    /\ call.macro = "assert_keys_eq"
    /\ call.a # call.b
    /\ call.line = 2
    /\ Failed
    /\ Len(log) = 5

\* C5: a passing assertion has no observable effect: the step that passes
\* leaves the log, the result, the accounts and the local bindings as they
\* were and returns no error, and the operation then carries on with the
\* statement after it.
C5_PassingNoEffect ==
    [][/\ (pc = "running" /\ pc' = "passed") =>
              (/\ log' = log
               /\ result' = result
               /\ result' = Pending
               /\ accounts' = accounts
               /\ locals' = locals)
       /\ (pc = "passed") =>
              (/\ pc' = "running"
               /\ stmt' = stmt + 1
               /\ UNCHANGED <<log, result, accounts, locals>>)]_vars

\* C5 witness: an ownership assertion passed as the second statement of an
\* operation.
C5_Witness ==
    /\ call.macro = "assert_owner"
    /\ pc = "passed"
    /\ stmt = 2
    /\ log = <<>>

FiveFormMacros ==
    {"assert_keys_eq", "assert_keys_neq", "invariant", "assert_is_zero_token_account"}

\* C6 as stated: for each of the four macros the error of a failing assertion
\* is the default kind (no argument, literal), ErrorCode::<name> (a bare
\* identifier), the expression's value (any other expression), and the
\* expression's value when an expression and a message are given.
C6_AsStated ==
    (call.macro \in FiveFormMacros /\ Failed) =>
        result.err =
            into(IF FormNone(call.args) \/ FormLiteral(call.args)
                 THEN DefaultKind(call.macro)
                 ELSE IF FormIdent(call.args)
                 THEN ErrorCode(call.args[1].name)
                 ELSE ExprValue(call.args))

\* C6 amended: as C6, except that a bare identifier N followed by a message
\* resolves to ErrorCode::N in invariant! and to the value of the local
\* binding N in the other three macros.
C6_Amended ==
    (call.macro \in FiveFormMacros /\ Failed) =>
        result.err = into(ResolvedError(call.macro, call.args))

\* C6 witness: a bare identifier followed by a message, where the local
\* binding of that name is not the ErrorCode member: invariant! failed with
\* the ErrorCode member.
C6_Witness ==
    /\ call.macro = "invariant"
    /\ FormErrAndMsg(call.args)
    /\ call.args[1].shape = "ident"
    /\ locals[call.args[1].name] # ErrorCode(call.args[1].name)
    /\ result = Err(into(ErrorCode(call.args[1].name)))

\* C7: the first log line of a failing assert_keys_eq, assert_keys_neq or
\* invariant is the construct's prefix followed by the text (literal text),
\* "<Debug name>: <Display message>" of the resolved error (no argument,
\* error identifier, error expression), or the supplied message verbatim
\* (error and message).
C7_FirstLogLine ==
    (call.macro \in KeyMacros \cup {"invariant"} /\ Failed) =>
        /\ Len(log) >= 1
        /\ log[1] = FirstLine(call.macro, call.args)

\* C7 witness: invariant! with a literal text failed and logged the prefixed
\* text first.
C7_Witness ==
    /\ call.macro = "invariant"
    /\ Failed
    /\ log[1] = "Invariant failed: this is wack"

(***************************************************************************)
(* Comparable errors.                                                      *)
(***************************************************************************)
\* The numeric code of an error, as <<builtin number, custom code>>: a
\* program error's code is its builtin number shifted left by 32 bits, or
\* the custom code itself.
NumericCode(e) ==
    IF e.family = "AnchorError"
    THEN <<0, e.error_code_number>>
    ELSE CASE e.program_error.variant = "Custom" -> <<0, e.program_error.code>>
           [] e.program_error.variant = "InvalidArgument" -> <<2, 0>>
           [] e.program_error.variant = "AccountAlreadyInitialized" -> <<9, 0>>
           [] e.program_error.variant = "BorshIoError" -> <<15, 0>>

Present(x) == x.some
SameFamily(x, y) == x.some /\ y.some /\ x.val.family = y.val.family

\* C8: Option<CmpError> equality follows the table: absent = absent; two
\* framework errors are equal iff their numeric codes are equal; two program
\* errors are equal iff their numeric codes are equal; every other pairing
\* is unequal.
C8_EqualityTable ==
    cmp.done =>
        (cmp.ab <=>
            \/ ~Present(cmp.a) /\ ~Present(cmp.b)
            \/ /\ SameFamily(cmp.a, cmp.b)
               /\ NumericCode(cmp.a.val) = NumericCode(cmp.b.val))

\* C9: CmpError equality is reflexive, symmetric and transitive on errors of
\* one family, and a framework error never equals a program error, the same
\* numeric code or not.
C9_Equivalence ==
    cmp.done =>
        /\ Present(cmp.a) => cmp.aa
        /\ SameFamily(cmp.a, cmp.b) => (cmp.ab <=> cmp.ba)
        /\ (SameFamily(cmp.a, cmp.b) /\ SameFamily(cmp.b, cmp.c)
              /\ cmp.ab /\ cmp.bc) => cmp.ac
        /\ (Present(cmp.a) /\ Present(cmp.b) /\ ~SameFamily(cmp.a, cmp.b)) =>
              (~cmp.ab /\ ~cmp.ba)

\* C9 witness: a framework error and a program error of the same numeric
\* code were compared and found unequal.
C9_Witness ==
    /\ cmp.done
    /\ Present(cmp.a) /\ Present(cmp.b)
    /\ cmp.a.val.family = "AnchorError"
    /\ cmp.b.val.family = "ProgramError"
    /\ NumericCode(cmp.a.val) = NumericCode(cmp.b.val)
    /\ ~cmp.ab

\* C10: two errors of the same family and the same numeric code compare
\* equal whatever else they carry (message text, name, origin, or the text
\* payload of a program error).
C10_OnlyFamilyAndCode ==
    (cmp.done /\ SameFamily(cmp.a, cmp.b)
       /\ NumericCode(cmp.a.val) = NumericCode(cmp.b.val)) => cmp.ab

(***************************************************************************)
(* The codes of the kinds.                                                 *)
(***************************************************************************)
\* How many kinds a revision declares before kind n.
DeclaredBefore(rev, n) ==
    Cardinality({i \in 1 .. Len(rev.kinds) :
                    \E j \in (i + 1) .. Len(rev.kinds) : rev.kinds[j] = n})

Converted == test.fn = "into" /\ test.done
Current == test.rev_a.file = "src/vipers/src/error.rs"

\* C11: every VipersError kind has the code 1100 plus its declaration index;
\* two different kinds have different codes; no code lies in 0..999 and none
\* reaches 6000, where the codes of a hosting program start.
C11_Codes ==
    (Converted /\ Current) =>
        /\ test.out_a.code = 1100 + DeclaredBefore(test.rev_a, test.name_a.name)
        /\ test.out_a.code = error_code(test.name_a)
        /\ (test.rev_b = test.rev_a /\ test.name_a # test.name_b) =>
              test.out_a.code # test.out_b.code
        /\ test.out_a.code \notin 0 .. 999
        /\ test.out_a.code < 6000
        /\ \A h \in HostErrors : error_code(h) >= 6000

\* C11 witness: the last kind declared and another kind of the same
\* revision were converted.
C11_Witness ==
    /\ Converted /\ Current
    /\ test.rev_b = test.rev_a
    /\ test.name_a = Vipers("UnknownBump")
    /\ test.name_b = Vipers("KeyMismatch")
    /\ test.out_a.code = 1110

\* C12: a kind that two revisions of the enum declare has the same code in
\* both, and of two revisions the shorter is a prefix of the longer.
C12_StableCodes ==
    Converted =>
        /\ test.name_a = test.name_b => test.out_a.code = test.out_b.code
        /\ Len(test.rev_a.kinds) <= Len(test.rev_b.kinds) =>
              SubSeq(test.rev_b.kinds, 1, Len(test.rev_a.kinds)) = test.rev_a.kinds

\* C12 witness: a kind of the six-kind revision was converted there and in
\* the eleven-kind revision.
C12_Witness ==
    /\ Converted
    /\ test.name_a = test.name_b
    /\ Len(test.rev_a.kinds) = 6
    /\ Len(test.rev_b.kinds) = 11
    /\ test.name_a = Vipers("InvalidATA")

(***************************************************************************)
(* Key extraction.                                                         *)
(***************************************************************************)
Extracted == test.fn = "as_key_ref" /\ test.done

\* The identifier a bare handle embeds; a box embeds that of its content.
Embedded(h) == IF h.variant = "Box" THEN KeyOf(h.inner) ELSE KeyOf(h)

\* C13: for a handle of each of the thirteen supported types, as_key_ref is
\* defined and returns the identifier the handle embeds.
C13_AsKeyRef ==
    (Extracted /\ test.handle.variant \in Variants) =>
        /\ test.out.compiles
        /\ test.out.key = Embedded(test.handle)
        /\ test.out.borrowed = Embedded(test.handle)

\* C13 witness: the key of a deprecated wrapper whose owner field holds
\* another identifier was extracted.
C13_Witness ==
    /\ Extracted
    /\ test.handle.variant = "ProgramState"
    /\ test.handle.info.key # test.handle.info.owner
    /\ test.out.compiles
    /\ test.out.key = test.handle.info.key

\* C14: as_key_ref is defined for a box of a supported handle and returns
\* what it returns for the handle in the box.
C14_Boxed ==
    (Extracted /\ test.handle.variant = "Box") =>
        /\ test.out.compiles
        /\ test.out.key = Embedded(test.handle)

(***************************************************************************)
(* The zero token account.                                                 *)
(***************************************************************************)
\* C15: assert_is_zero_token_account passes iff the amount is zero, no
\* delegate is set and no close authority is set; any one violation makes it
\* fail, with VipersError::TokenAccountIsNonZero when no error was supplied.
C15_ZeroTokenAccount ==
    call.macro = "assert_is_zero_token_account" =>
        IF /\ call.acct.amount = 0
           /\ ~call.acct.delegate.some
           /\ ~call.acct.close_authority.some
        THEN Passed
        ELSE /\ Failed
             /\ (FormNone(call.args) \/ FormLiteral(call.args)) =>
                    result.err = into(Vipers("TokenAccountIsNonZero"))

\* C15 witness: an account whose only violation is its close authority
\* failed the assertion with the default kind.
C15_Witness ==
    /\ call.macro = "assert_is_zero_token_account"
    /\ call.acct.amount = 0
    /\ ~call.acct.delegate.some
    /\ call.acct.close_authority.some
    /\ FormNone(call.args)
    /\ Failed
    /\ result.err.code = 1109

(***************************************************************************)
(* validate_derived_address.                                               *)
(***************************************************************************)
Validated == test.fn = "validate_derived_address" /\ test.done

\* C16: validate_derived_address returns true iff the host derives an
\* address from the seeds and the program and that address is the claimed
\* one; when the derivation fails or gives another address it returns
\* false, and it always returns a boolean.
C16_ValidateDerivedAddress ==
    Validated =>
        /\ test.out \in BOOLEAN
        /\ test.out <=>
              (test.created.tag = "Ok" /\ test.created.key = test.derived_address)

\* C16 witness: the host derived an address other than the claimed one and
\* the current revision returned false.
C16_Witness ==
    /\ Validated
    /\ test.file = "src/vipers/src/lib.rs"
    /\ test.created.tag = "Ok"
    /\ test.created.key # test.derived_address
    /\ test.out = FALSE

\* C17: a call of validate_derived_address writes nothing: the program log
\* and the standard output are as they were before the call, whatever it
\* returns.
C17_NoOutput ==
    Validated => (stdout = <<>> /\ log = <<>>)

(***************************************************************************)
(* Ownership.                                                              *)
(***************************************************************************)
\* The owner expression of an assert_owner! call and the program it names.
OwnerArg == call.args[1]
ExpectedOwner ==
    KeyOf(IF OwnerArg.shape = "ident" THEN accounts[OwnerArg.name]
          ELSE OwnerArg.val)
RecordedOwner == accounts[call.a].info.owner
OwnerMsg == IF Len(call.args) = 1 THEN "owner mismatch" ELSE call.args[2].text

\* C18: assert_owner passes iff the owner recorded on the handle is the
\* expected program and otherwise fails with VipersError::OwnerMismatch;
\* validate on a CpiAccount of a token account or mint succeeds iff the
\* recorded owner is the token program.
C18_AssertOwner ==
    /\ call.macro = "assert_owner" =>
          IF RecordedOwner = ExpectedOwner
          THEN Passed
          ELSE Failed /\ result.err = into(Vipers("OwnerMismatch"))
    /\ call.macro = "validate" =>
          IF call.acct.info.owner = TokenProgram
          THEN Passed
          ELSE Failed /\ result.err = into(Vipers("OwnerMismatch"))

\* C18 witness: an account whose key is the expected program but whose
\* owner is not failed assert_owner with code 1104.
C18_Witness ==
    /\ call.macro = "assert_owner"
    /\ accounts[call.a].info.key = ExpectedOwner
    /\ RecordedOwner # ExpectedOwner
    /\ Failed
    /\ result.err.code = 1104

\* C19: the line a failing assert_owner logs names the program the caller
\* passed after "expected" and the owner recorded on the account after
\* "got".
C19_OwnerLogLine ==
    (call.macro = "assert_owner" /\ Failed) =>
        log[Len(log)] =
            "Owner mismatch: " \o OwnerMsg \o ": expected "
                \o KeyText(ExpectedOwner) \o ", got " \o KeyText(RecordedOwner)

(***************************************************************************)
(* Sequences of assertions.                                                *)
(***************************************************************************)
\* C20: in an operation that runs assertions one after another, the step
\* that fails is the first failing assertion in program order: nothing was
\* logged before it, it is the assertion at the current statement, its
\* error is the operation's result and the operation has returned; no step
\* follows a result, so no later assertion runs or logs; and the operation
\* returns Ok only when nothing was logged, every assertion having passed.
C20_ShortCircuit ==
    [][/\ result = Pending
       /\ result'.tag = "Err" =>
             /\ pc' = "returned"
             /\ log = <<>> /\ log' # <<>>
             /\ call'.line = stmt /\ stmt' = stmt
       /\ result'.tag = "Ok" => (pc' = "returned" /\ log' = <<>>)]_vars

\* C20 witness: the first assertion passed and the second failed.
C20_Witness ==
    /\ Failed
    /\ stmt = 2
    /\ call.line = 2
    /\ log # <<>>

(***************************************************************************)
(* Checked arithmetic and unwrapping.                                      *)
(***************************************************************************)
\* The exact values of a block's two operations, over the integers.
Exact(o, a) == IF o.op = "checked_add" THEN a + o.arg ELSE a - o.arg
ExactFirst(b) == Exact(b.first, b.start)
ExactLast(b) == Exact(b.last, ExactFirst(b))
InRange(b) == ExactFirst(b) \in 0 .. IntMax /\ ExactLast(b) \in 0 .. IntMax

\* The error unwrap_opt! resolves to, by the form of its trailing arguments.
UnwrapError(t) ==
    IF FormNone(t) \/ FormLiteral(t)
    THEN Vipers("OptionUnwrapFailed")
    ELSE IF FormIdent(t) THEN ErrorCode(t[1].name) ELSE ExprValue(t)

BlockMacros == {"unwrap_checked", "unwrap_opt_block"}

\* C22: unwrap_checked and unwrap_opt_block over a block of checked
\* operations give the exact result when no operation leaves the range of
\* the type; otherwise they fail, unwrap_checked with IntegerOverflow and
\* unwrap_opt_block with the supplied error, through the failure path of
\* the enclosing operation (its three log lines), also when it was the
\* first operation of the block that had no value.
C22_UnwrapChecked ==
    call.macro \in BlockMacros =>
        IF InRange(call.block)
        THEN Passed /\ call.value = Some(ExactLast(call.block))
        ELSE /\ Failed
             /\ result.err =
                    into(IF call.macro = "unwrap_checked"
                         THEN Vipers("IntegerOverflow")
                         ELSE UnwrapError(call.args))
             /\ Len(log) = 3
             /\ log[3] = "Error thrown at lib.rs:" \o ToString(call.line)

\* C22 witness: the first operation of the block overflowed, the second
\* alone would not have, and unwrap_checked failed with IntegerOverflow.
C22_Witness ==
    /\ call.macro = "unwrap_checked"
    /\ call.block.start = 1
    /\ call.block.first = [op |-> "checked_add", arg |-> IntMax]
    /\ call.block.last = [op |-> "checked_sub", arg |-> 1]
    /\ Failed
    /\ result.err.code = 1103

\* C23: unwrap_opt passes with the contained value and an empty log when
\* the option is present; when it is absent it fails with
\* OptionUnwrapFailed if no error was supplied and with the supplied error
\* otherwise; unwrap_int on an absent value fails with IntegerOverflow.
C23_UnwrapOpt ==
    /\ call.macro = "unwrap_opt" =>
          IF call.opt.some
          THEN Passed /\ call.value = call.opt /\ log = <<>>
          ELSE Failed /\ result.err = into(UnwrapError(call.args))
    /\ call.macro = "unwrap_int" =>
          IF call.opt.some
          THEN Passed /\ call.value = call.opt /\ log = <<>>
          ELSE Failed /\ result.err = into(Vipers("IntegerOverflow"))

\* C23 witness: unwrap_opt on an absent option with a supplied error failed
\* with that error.
C23_Witness ==
    /\ call.macro = "unwrap_opt"
    /\ ~call.opt.some
    /\ FormExpr(call.args)
    /\ call.args[1].val = ErrorCode("MyError")
    /\ Failed
    /\ result.err.code = 6000

(***************************************************************************)
(* The legacy copy against the current one.                                *)
(***************************************************************************)
\* C24: the legacy invariant! passes on a true condition and, on a false
\* one, fails with the error the current invariant! returns for the same
\* trailing arguments: the caller's error where one was supplied.
C24_LegacyInvariant ==
    call.macro = "legacy_invariant" =>
        IF call.cond.val
        THEN Passed
        ELSE Failed /\ result.err = into(ResolvedError("invariant", call.args))

\* C25: the legacy unwrap_int on an absent value fails with
\* IntegerOverflow, and the legacy unwrap_opt on an absent value fails with
\* the error the caller supplied, as the current copy does.
C25_LegacyUnwrap ==
    /\ (call.macro = "legacy_unwrap_int" /\ ~call.opt.some) =>
          Failed /\ result.err = into(Vipers("IntegerOverflow"))
    /\ (call.macro = "legacy_unwrap_opt" /\ ~call.opt.some) =>
          Failed /\ result.err = into(UnwrapError(call.args))

(***************************************************************************)
(* C26, C27: code locations and associated token addresses.                *)
(***************************************************************************)
\* C26: every failing assertion, the ownership assertion and the associated
\* address assertions included, ends its log with the line
\* "Error thrown at <file>:<line>" of the failing call.
C26_CodeLocation ==
    (call.macro # "none" /\ Failed) =>
        /\ Len(log) > 0
        /\ log[Len(log)] = "Error thrown at lib.rs:" \o ToString(call.line)

\* The message assert_ata! and assert_is_ata! print.
AtaMsg(default) == IF call.args = <<>> THEN default ELSE call.args[1].text

\* assert_ata! passes exactly when the claimed address is the derived one;
\* otherwise it logs the claimed and the derived address, the owner and the
\* mint, and fails with ATAMismatch.
C27_AssertAta ==
    call.macro = "assert_ata" =>
        IF KeyOf(accounts[call.a]) = call.derived
        THEN Passed
        ELSE /\ Failed
             /\ result.err = into(Vipers("ATAMismatch"))
             /\ Len(log) >= 4
             /\ SubSeq(log, Len(log) - 3, Len(log) - 1) =
                   <<"ATA mismatch: " \o AtaMsg("ata mismatch") \o ": "
                        \o KeyText(KeyOf(accounts[call.a])) \o " (left) != "
                        \o KeyText(call.derived) \o " (right)",
                     "Owner: " \o KeyText(KeyOf(accounts[call.owner])),
                     "Mint: " \o KeyText(KeyOf(accounts[call.mint]))>>

\* C27: assert_ata! passes exactly when the claimed address equals the
\* derived one and otherwise fails with ATAMismatch after logging the
\* claimed and derived addresses, the owner and the mint; assert_is_ata!
\* first fails with OwnerMismatch when the account is not owned by the token
\* program, then fails with InvalidATA under the same comparison, and
\* passes otherwise.
C27_Ata ==
    /\ C27_AssertAta
    /\ call.macro = "assert_is_ata" =>
          IF call.acct.info.owner # TokenProgram
          THEN Failed /\ result.err = into(Vipers("OwnerMismatch"))
          ELSE IF call.acct.info.key # call.derived
          THEN Failed /\ result.err = into(Vipers("InvalidATA"))
          ELSE Passed

(***************************************************************************)
(* C28: the expansion of the ownership assertion.                          *)
(***************************************************************************)
Expanded == test.fn = "expand" /\ test.done

\* The expansion compares the account's owner with the address of the
\* program module of that name.
ComparesProgramId(name) ==
    /\ test.out.owner.shape = "path"
    /\ test.out.owner.val = PubkeyHandle(program_ids[name])

\* C28: the expansion of assert_owner! ends for every argument shape it
\* accepts, the call made by assert_is_ata! included, and a bare program
\* name is compared against program_ids::<name>::ID.
C28_Expansion ==
    Expanded =>
        /\ test.out.compiles
        /\ (test.macro = "assert_owner" /\ test.args[1].shape = "ident") =>
              ComparesProgramId(test.args[1].name)
        /\ (test.macro = "assert_is_ata") => ComparesProgramId("token")

(***************************************************************************)
(* C29: the message given to unwrap_opt!.                                  *)
(***************************************************************************)
\* The text m occurs in the line.
Contains(line, m) ==
    \E i \in 1..(Len(line) - Len(m) + 1) : SubSeq(line, i, i + Len(m) - 1) = m

\* The message a call supplies, alone or after an error.
HasMessage(t) == FormLiteral(t) \/ (FormErrAndMsg(t) /\ t[2].shape = "literal")
SuppliedMessage(t) == IF FormLiteral(t) THEN t[1].text ELSE t[2].text

\* C29: when unwrap_opt! is given a message and the value is absent, the
\* message appears in the log.
C29_UnwrapMessage ==
    (call.macro = "unwrap_opt" /\ ~call.opt.some /\ HasMessage(call.args)) =>
        \E j \in 1..Len(log) : Contains(log[j], SuppliedMessage(call.args))

(***************************************************************************)
(* C30: conversions into a comparable error.                               *)
(***************************************************************************)
Succeeded(x) == x.type = "Result" /\ x.val.tag = "Ok"
FailedWith(x) == x.type = "Result" /\ x.val.tag = "Err"
AbsentError(x) == x.type = "Option" /\ ~x.val.some

\* The error a source carries, when it carries one.
CarriedError(x) ==
    IF x.type = "Result" THEN x.val.err
    ELSE IF x.type = "Error" THEN x.val
    ELSE x.val.val

\* What the claim says a source converts to.
ConvertsAsStated(x, out) ==
    IF Succeeded(x) \/ AbsentError(x)
    THEN out = [some |-> FALSE]
    ELSE out = [some |-> TRUE, val |-> CarriedError(x)]

\* C30: into_cmp_error maps a successful result and an absent error to None
\* and a failed result or a present error e to Some(CmpError(e)) with e
\* unchanged; two successful results compare equal, and a successful result
\* never compares equal to a failed one.
C30_IntoCmpError ==
    (test.fn = "into_cmp_error" /\ test.done) =>
        /\ ConvertsAsStated(test.x, test.out_x)
        /\ ConvertsAsStated(test.y, test.out_y)
        /\ (Succeeded(test.x) /\ Succeeded(test.y)) => test.equal
        /\ (Succeeded(test.x) /\ FailedWith(test.y)) => ~test.equal
        /\ (FailedWith(test.x) /\ Succeeded(test.y)) => ~test.equal

\* C30 witness: a successful and a failed result were converted, the failed
\* one to its own error, and compared unequal.
C30_Witness ==
    /\ test.fn = "into_cmp_error" /\ test.done
    /\ Succeeded(test.x)
    /\ FailedWith(test.y)
    /\ test.y.val.err.family = "AnchorError"
    /\ test.out_y = [some |-> TRUE, val |-> test.y.val.err]
    /\ ~test.equal

====
